---- MODULE Spec2Model ----
(***************************************************************************)
(* Widget development pipeline of apps-sdk-template:                       *)
(*   - the client widget loader (web/src/widget-dev.tsx, ungated and       *)
(*     host-gated variants),                                               *)
(*   - the dev shell middleware and the Express handler chain,             *)
(*   - the static widget metadata extractor.                               *)
(* Strings built by template literals are modelled as sequences of their   *)
(* parts (tokens); a path is the sequence of its segments.                 *)
(***************************************************************************)
EXTENDS Integers, Sequences, FiniteSets, TLC

VARIABLES
  \* ---- client widget loader ----
  gated,            \* TRUE: loader gated on window.openai; FALSE: plain loader
  strictDev,        \* TRUE: StrictMode double-invokes mount effects (development build)
  search,           \* window.location.search, a sequence of <<key, value>> pairs
  widgets,          \* keys of the import.meta.glob map, in order (module names)
  windowOpenai,     \* window.openai is set on the global object
  hasOpenAI,        \* React state hasOpenAI
  error,            \* React state error (NoError is null)
  WidgetComponent,  \* React state WidgetComponent
  pc,               \* position of the mount: mount1, strictCleanup, mount2, running, unmounted
  intervals,        \* effect runs whose setInterval is still pending
  timeouts,         \* effect runs whose setTimeout is still pending
  cleanupRun,       \* effect run whose cleanup function React holds (0: none)
  loadEffectPending,\* the load effect is scheduled to re-run (hasOpenAI changed)
  loads,            \* module loads started, in order: [name, status]
  moduleMap,        \* browser module map: name -> unfetched / fetching / ok / failed
  lookups,          \* history: selectors read by the load effect, in order
  warned,           \* history: the 30 s warning was logged
  firedAfterUnmount,\* history: a timer callback of the mount ran after unmount
  polledAtUnmount,  \* history: the poll interval was pending when the unmount began
  \* ---- Express handler chain of the server ----
  composition,      \* which entry point built the app: "index", "inline", "package"
  nodeEnv,          \* env.NODE_ENV
  chain,            \* app's middleware stack, in app.use order: [kind, mount]
  req,              \* the request being dispatched: [path], or NoReq
  idx,              \* index in chain of the handler to run next (0: no request)
  errorMode,        \* next(err) was called: only error handlers may run
  seen,             \* history: kinds of the handlers invoked for the request
  responses,        \* responses sent for the request: [by, status, contentType, body]
  shellRuns,        \* history: the invocations of the shell middleware
  \* ---- metadata extractor (one run of main) ----
  widgetFiles,      \* result of glob("src/widgets/*.tsx"): [file, readable, lines]
  xpc,              \* position of main: start, loop, write, exit0, exit1
  fileIdx,          \* index of the unit the for loop processes next
  metadataMap,      \* metadataMap: widget name -> [name, exampleOutput]
  outFile,          \* dist/widget-metadata.json: absent, partial or the JSON text
  processed,        \* history: what the loop did with each unit
  \* ---- example generator (calls of generateExampleFromZodSchema) ----
  genSchema,        \* the schema node the generator is called on
  gpc,              \* ready: before a call, done: the call has returned or thrown
  genOutcome,       \* outcome of the last call: returned value or throw, diagnostics
  genCalls,         \* number of calls made on the node
  \* ---- widget definition binder (calls of defineWidget) ----
  heap,             \* objects by identity: heap[id] is the content of object id
  meta,             \* meta[c]: the __widgetMeta property of component c
  producerCalls,    \* producerCalls[p]: how often example producer p was invoked
  mockCalls,        \* how often generateMockFromSchema was invoked
  lastCall,         \* the last defineWidget call: its definition and outcome
  nBinds,           \* number of defineWidget calls made
  lastRead,         \* what the last read of a component's metadata saw
  \* ---- safePath (one call) ----
  userPath,         \* the user-provided path, a string as its characters
  ppc,              \* ready: before the call, done: after it
  pathResult        \* what the call returned or threw

loaderVars == <<gated, strictDev, search, widgets, windowOpenai, hasOpenAI, error,
                WidgetComponent, pc, intervals, timeouts, cleanupRun,
                loadEffectPending, loads, moduleMap, lookups, warned,
                firedAfterUnmount, polledAtUnmount>>

serverVars == <<composition, nodeEnv, chain, req, idx, errorMode, seen, responses,
                shellRuns>>

extractVars == <<widgetFiles, xpc, fileIdx, metadataMap, outFile, processed>>

genVars == <<genSchema, gpc, genOutcome, genCalls>>

bindVars == <<heap, meta, producerCalls, mockCalls, lastCall, nBinds, lastRead>>

pathVars == <<userPath, ppc, pathResult>>

nonLoaderVars == <<serverVars, extractVars, genVars, bindVars, pathVars>>

nonServerVars == <<loaderVars, extractVars, genVars, bindVars, pathVars>>

nonExtractVars == <<loaderVars, serverVars, genVars, bindVars, pathVars>>

nonGenVars == <<loaderVars, serverVars, extractVars, bindVars, pathVars>>

nonBindVars == <<loaderVars, serverVars, extractVars, genVars, pathVars>>

nonPathVars == <<loaderVars, serverVars, extractVars, genVars, bindVars>>

vars == <<loaderVars, serverVars, extractVars, genVars, bindVars, pathVars>>

(***************************************************************************)
(* Bounds                                                                  *)
(***************************************************************************)
MaxParams == 2

MaxSegments == 3

MaxUnits == 2

MaxCalls == 2

MaxBinds == 2

MaxPathLen == 5

(***************************************************************************)
(* Inputs of the loader                                                    *)
(***************************************************************************)
\* Candidate files of ./widgets/*.tsx in key order. Every module has the
\* declared type { default: React.ComponentType }.
ModuleUniverse == <<"pokemon", "todo">>

QueryKeys == {"widget", "debug"}

QueryValues == {"", "todo", "nope"}

\* err.message of a rejected dynamic import
Reasons == {"Failed to fetch dynamically imported module"}

NoError == <<>>

SeqsUpTo(S, n) == UNION {[1..k -> S] : k \in 0..n}

Queries == SeqsUpTo(QueryKeys \X QueryValues, MaxParams)

WidgetPath(widgetName) == <<"./widgets/", widgetName, ".tsx">>

GlobSets ==
  { [i \in 1..Len(sub) |-> WidgetPath(sub[i])] :
      sub \in { SelectSeq(ModuleUniverse, LAMBDA n : n \in S) :
                  S \in SUBSET {ModuleUniverse[i] : i \in 1..Len(ModuleUniverse)} } }

(***************************************************************************)
(* Pure helpers of the loader                                              *)
(***************************************************************************)
\* URLSearchParams.get: the value of the first pair with that key, or null
ParamsGet(params, key) ==
  IF \E i \in 1..Len(params) : params[i][1] = key
  THEN LET i == CHOOSE k \in 1..Len(params) :
                  /\ params[k][1] = key
                  /\ \A j \in 1..(k - 1) : params[j][1] # key
       IN <<"string", params[i][2]>>
  ELSE <<"null">>

\* Mutant of OrDefault: only null takes the default (v ?? d).
OrDefaultNullOnly(v, d) == IF v = <<"null">> THEN d ELSE v[2]

\* JavaScript  v || d  on a string-or-null v
OrDefault(v, d) == IF v = <<"null">> \/ v = <<"string", "">> THEN d ELSE v[2]

SelectorOf(params) == OrDefault(ParamsGet(params, "widget"), "pokemon")

\* widgets[widgetPath] is defined
HasKey(keys, widgetPath) == \E i \in 1..Len(keys) : keys[i] = widgetPath

\* String.replace(tok, ""): drops the first occurrence of tok
StrReplace(s, tok) ==
  IF \E i \in 1..Len(s) : s[i] = tok
  THEN LET i == CHOOSE k \in 1..Len(s) :
                  /\ s[k] = tok
                  /\ \A j \in 1..(k - 1) : s[j] # tok
       IN SubSeq(s, 1, i - 1) \o SubSeq(s, i + 1, Len(s))
  ELSE s

RECURSIVE Join(_, _)
Join(parts, sep) ==
  IF Len(parts) = 0 THEN <<>>
  ELSE IF Len(parts) = 1 THEN parts[1]
  ELSE parts[1] \o <<sep>> \o Join(Tail(parts), sep)

AvailableWidgets(keys) ==
  Join([i \in 1..Len(keys) |-> StrReplace(StrReplace(keys[i], "./widgets/"), ".tsx")], ", ")

\* Mutant of NotFoundMsg: the list of available names is left out.
NotFoundMsgNoList(widgetName, keys) ==
  <<"Widget ", widgetName, " not found.">>

NotFoundMsg(widgetName, keys) ==
  <<"Widget ", widgetName, " not found. Available: ">> \o AvailableWidgets(keys)

\* Mutant of LoadFailMsg: the failure reason is left out.
LoadFailMsgNoReason(widgetName, reason) ==
  <<"Failed to load widget ", widgetName>>

LoadFailMsg(widgetName, reason) ==
  <<"Failed to load widget ", widgetName, ": ", reason>>

\* module.default of a loaded widget module
ModuleDefault(name) == <<"component", name>>

\* What the component returns (what is on screen while mounted)
Render ==
  IF gated /\ ~hasOpenAI THEN <<"NoOpenAIFallback">>
  ELSE IF error # NoError THEN <<"ErrorView", error>>
  ELSE IF WidgetComponent \in {<<"null">>, <<"undefined">>} THEN <<"Spinner">>
  ELSE <<"Widget", WidgetComponent[2]>>

LoaderState ==
  IF pc = "unmounted" THEN "unmounted"
  ELSE IF Render[1] = "NoOpenAIFallback" THEN "awaiting-host-signal"
  ELSE IF Render[1] = "ErrorView" THEN "error"
  ELSE IF Render[1] = "Spinner" THEN "resolving"
  ELSE "loaded"

NoReq == [path |-> <<>>]

\* nothing was sent (by a middleware: its result; by the app: the response)
NoResponse == <<"none">>

\* The server part of a state in which no server is modelled.
ServerIdle ==
  /\ composition = "none"
  /\ nodeEnv = "none"
  /\ chain = <<>>
  /\ req = NoReq
  /\ idx = 0
  /\ errorMode = FALSE
  /\ seen = <<>>
  /\ responses = <<>>
  /\ shellRuns = <<>>

\* The extractor part of a state in which no extractor run is modelled.
ExtractIdle ==
  /\ widgetFiles = <<>>
  /\ xpc = "none"
  /\ fileIdx = 0
  /\ metadataMap = <<>>
  /\ outFile = <<"absent">>
  /\ processed = <<>>

NoOutcome == <<"none">>

\* The generator part of a state in which no generator call is modelled.
GenIdle ==
  /\ genSchema = [typeName |-> "none"]
  /\ gpc = "none"
  /\ genOutcome = NoOutcome
  /\ genCalls = 0

\* The binder part of a state in which no defineWidget call is modelled.
BindIdle ==
  /\ heap = <<>>
  /\ meta = <<>>
  /\ producerCalls = <<>>
  /\ mockCalls = 0
  /\ lastCall = <<"none">>
  /\ nBinds = 0
  /\ lastRead = <<"none">>

\* The safePath part of a state in which no safePath call is modelled.
PathIdle ==
  /\ userPath = <<>>
  /\ ppc = "none"
  /\ pathResult = <<"none">>

(***************************************************************************)
(* Loader: construction                                                    *)
(***************************************************************************)
InitLoader ==
  /\ gated \in BOOLEAN
  /\ strictDev \in BOOLEAN
  /\ search \in Queries
  /\ widgets \in GlobSets
  /\ windowOpenai \in BOOLEAN
  /\ hasOpenAI = FALSE
  /\ error = NoError
  /\ WidgetComponent = <<"null">>
  /\ pc = "mount1"
  /\ intervals = {}
  /\ timeouts = {}
  /\ cleanupRun = 0
  /\ loadEffectPending = FALSE
  /\ loads = <<>>
  /\ moduleMap = [i \in 1..Len(ModuleUniverse) |-> <<"unfetched">>]
  /\ lookups = <<>>
  /\ warned = FALSE
  /\ firedAfterUnmount = FALSE
  /\ polledAtUnmount = FALSE
  /\ ServerIdle
  /\ ExtractIdle
  /\ GenIdle
  /\ BindIdle
  /\ PathIdle

ModuleIndex(name) == CHOOSE i \in 1..Len(ModuleUniverse) : ModuleUniverse[i] = name

\* The loader part of a state in which no loader is modelled.
LoaderIdle ==
  /\ gated = FALSE
  /\ strictDev = FALSE
  /\ search = <<>>
  /\ widgets = <<>>
  /\ windowOpenai = FALSE
  /\ hasOpenAI = FALSE
  /\ error = NoError
  /\ WidgetComponent = <<"null">>
  /\ pc = "none"
  /\ intervals = {}
  /\ timeouts = {}
  /\ cleanupRun = 0
  /\ loadEffectPending = FALSE
  /\ loads = <<>>
  /\ moduleMap = <<>>
  /\ lookups = <<>>
  /\ warned = FALSE
  /\ firedAfterUnmount = FALSE
  /\ polledAtUnmount = FALSE

(***************************************************************************)
(* Loader: effects                                                         *)
(***************************************************************************)
\* The host-detection effect, run number r of the mount.
CheckEffect(r) ==
  IF windowOpenai
  THEN /\ hasOpenAI' = TRUE
       /\ loadEffectPending' = TRUE
       /\ cleanupRun' = 0
       /\ UNCHANGED <<intervals, timeouts>>
  ELSE /\ intervals' = intervals \cup {r}
       /\ timeouts' = timeouts \cup {r}
       /\ cleanupRun' = r
       /\ UNCHANGED <<hasOpenAI, loadEffectPending>>

\* The body of the load effect after its guard.
LoadEffect ==
  LET widgetName == SelectorOf(search)
      widgetPath == WidgetPath(widgetName)
  IN /\ lookups' = Append(lookups, [selector |-> widgetName, key |-> widgetPath])
     /\ IF ~HasKey(widgets, widgetPath)
        THEN /\ error' = NotFoundMsg(widgetName, widgets)
             /\ UNCHANGED <<loads, moduleMap>>
        ELSE /\ loads' = Append(loads, [name |-> widgetName, status |-> "pending"])
             /\ moduleMap' = [moduleMap EXCEPT ![ModuleIndex(widgetName)] =
                                IF @ = <<"unfetched">> THEN <<"fetching">> ELSE @]
             /\ UNCHANGED error

\* Mutant of CheckCleanup: clearTimeout is forgotten.
CheckCleanupKeepsTimeout ==
  /\ intervals' = intervals \ {cleanupRun}
  /\ timeouts' = timeouts
  /\ cleanupRun' = 0

\* The cleanup function returned by the host-detection effect.
CheckCleanup ==
  /\ intervals' = intervals \ {cleanupRun}
  /\ timeouts' = timeouts \ {cleanupRun}
  /\ cleanupRun' = 0

\* Mutant of GuardedLoadEffect: the hasOpenAI guard is missing.
UnguardedLoadEffect(capturedHasOpenAI) == LoadEffect

\* The load effect, run with the value of hasOpenAI its render captured.
\* The plain loader has no guard.
GuardedLoadEffect(capturedHasOpenAI) ==
  IF gated /\ ~capturedHasOpenAI
  THEN UNCHANGED <<error, loads, moduleMap, lookups>>
  ELSE LoadEffect

\* Commit of the first render: the effects run in order, each with the
\* closure of that render (hasOpenAI = false).
MountEffects ==
  /\ pc \in {"mount1", "mount2"}
  /\ LET r == IF pc = "mount1" THEN 1 ELSE 2
     IN IF gated
        THEN CheckEffect(r)
        ELSE UNCHANGED <<hasOpenAI, loadEffectPending, cleanupRun, intervals, timeouts>>
  /\ GuardedLoadEffect(FALSE)
  /\ pc' = IF pc = "mount1" /\ strictDev THEN "strictCleanup" ELSE "running"
  /\ UNCHANGED <<nonLoaderVars, gated, strictDev, search, widgets, windowOpenai, WidgetComponent,
                 warned, firedAfterUnmount, polledAtUnmount>>

\* StrictMode's simulated unmount between the two runs of the mount effects.
StrictCleanup ==
  /\ pc = "strictCleanup"
  /\ CheckCleanup
  /\ pc' = "mount2"
  /\ UNCHANGED <<nonLoaderVars, gated, strictDev, search, widgets, windowOpenai, hasOpenAI, error,
                 WidgetComponent, loadEffectPending, loads, moduleMap, lookups,
                 warned, firedAfterUnmount, polledAtUnmount>>

\* Re-render after hasOpenAI changed, then the load effect.
RunLoadEffect ==
  /\ pc = "running"
  /\ loadEffectPending
  /\ loadEffectPending' = FALSE
  /\ GuardedLoadEffect(hasOpenAI)
  /\ UNCHANGED <<nonLoaderVars, gated, strictDev, search, widgets, windowOpenai, hasOpenAI,
                 WidgetComponent, pc, intervals, timeouts, cleanupRun, warned,
                 firedAfterUnmount, polledAtUnmount>>

(***************************************************************************)
(* Loader: timers, host, module loads, unmount                             *)
(***************************************************************************)
\* The embedding page sets window.openai.
HostInject ==
  /\ pc \in {"running", "unmounted"}
  /\ ~windowOpenai
  /\ windowOpenai' = TRUE
  /\ UNCHANGED <<nonLoaderVars, gated, strictDev, search, widgets, hasOpenAI, error, WidgetComponent,
                 pc, intervals, timeouts, cleanupRun, loadEffectPending, loads,
                 moduleMap, lookups, warned, firedAfterUnmount, polledAtUnmount>>

\* Mutant of PollTick: the callback clears the interval without setHasOpenAI.
PollTickBlind(r) ==
  /\ pc \in {"running", "unmounted"}
  /\ r \in intervals
  /\ intervals' = IF windowOpenai THEN intervals \ {r} ELSE intervals
  /\ firedAfterUnmount' = (firedAfterUnmount \/ pc = "unmounted")
  /\ UNCHANGED <<nonLoaderVars, gated, strictDev, search, widgets, windowOpenai, error,
                 WidgetComponent, pc, timeouts, cleanupRun, loads, moduleMap,
                 lookups, warned, polledAtUnmount, hasOpenAI, loadEffectPending>>

\* The setInterval callback of effect run r.
PollTick(r) ==
  /\ pc \in {"running", "unmounted"}
  /\ r \in intervals
  /\ IF windowOpenai
     THEN /\ intervals' = intervals \ {r}
          /\ IF pc = "running"
             THEN /\ hasOpenAI' = TRUE
                  /\ loadEffectPending' = (loadEffectPending \/ ~hasOpenAI)
             ELSE UNCHANGED <<hasOpenAI, loadEffectPending>>
     ELSE UNCHANGED <<intervals, hasOpenAI, loadEffectPending>>
  /\ firedAfterUnmount' = (firedAfterUnmount \/ pc = "unmounted")
  /\ UNCHANGED <<nonLoaderVars, gated, strictDev, search, widgets, windowOpenai, error,
                 WidgetComponent, pc, timeouts, cleanupRun, loads, moduleMap,
                 lookups, warned, polledAtUnmount>>

\* The setTimeout callback of effect run r.
PollTimeout(r) ==
  /\ pc \in {"running", "unmounted"}
  /\ r \in timeouts
  /\ timeouts' = timeouts \ {r}
  /\ intervals' = intervals \ {r}
  /\ warned' = (warned \/ ~windowOpenai)
  /\ firedAfterUnmount' = (firedAfterUnmount \/ pc = "unmounted")
  /\ UNCHANGED <<nonLoaderVars, gated, strictDev, search, widgets, windowOpenai, hasOpenAI, error,
                 WidgetComponent, pc, cleanupRun, loadEffectPending, loads,
                 moduleMap, lookups, polledAtUnmount>>

\* The browser finishes fetching and evaluating a module.
FetchSettle(i) ==
  /\ pc \in {"running", "unmounted"}
  /\ moduleMap[i] = <<"fetching">>
  /\ \E outcome \in {<<"ok">>} \cup {<<"failed", x>> : x \in Reasons} :
       moduleMap' = [moduleMap EXCEPT ![i] = outcome]
  /\ UNCHANGED <<nonLoaderVars, gated, strictDev, search, widgets, windowOpenai, hasOpenAI, error,
                 WidgetComponent, pc, intervals, timeouts, cleanupRun,
                 loadEffectPending, loads, lookups, warned, firedAfterUnmount, polledAtUnmount>>

\* .then callback of load k
LoadThen(k) ==
  /\ pc \in {"running", "unmounted"}
  /\ k \in 1..Len(loads)
  /\ loads[k].status = "pending"
  /\ moduleMap[ModuleIndex(loads[k].name)] = <<"ok">>
  /\ loads' = [loads EXCEPT ![k].status = "fulfilled"]
  /\ WidgetComponent' = IF pc = "running" THEN ModuleDefault(loads[k].name)
                        ELSE WidgetComponent
  /\ UNCHANGED <<nonLoaderVars, gated, strictDev, search, widgets, windowOpenai, hasOpenAI, error,
                 pc, intervals, timeouts, cleanupRun, loadEffectPending, moduleMap,
                 lookups, warned, firedAfterUnmount, polledAtUnmount>>

\* Mutant of LoadCatch: the promise of load k rejects whatever became of the
\* module in the module map.
LoadCatchUnshared(k) ==
  /\ pc \in {"running", "unmounted"}
  /\ k \in 1..Len(loads)
  /\ loads[k].status = "pending"
  /\ moduleMap[ModuleIndex(loads[k].name)][1] \in {"ok", "failed"}
  /\ loads' = [loads EXCEPT ![k].status = "rejected"]
  /\ error' = IF pc = "running" THEN LoadFailMsg(loads[k].name, "network") ELSE error
  /\ UNCHANGED <<nonLoaderVars, gated, strictDev, search, widgets, windowOpenai, hasOpenAI,
                 WidgetComponent, pc, intervals, timeouts, cleanupRun,
                 loadEffectPending, moduleMap, lookups, warned, firedAfterUnmount, polledAtUnmount>>

\* .catch callback of load k
LoadCatch(k) ==
  /\ pc \in {"running", "unmounted"}
  /\ k \in 1..Len(loads)
  /\ loads[k].status = "pending"
  /\ moduleMap[ModuleIndex(loads[k].name)][1] = "failed"
  /\ loads' = [loads EXCEPT ![k].status = "rejected"]
  /\ error' = IF pc = "running"
              THEN LoadFailMsg(loads[k].name, moduleMap[ModuleIndex(loads[k].name)][2])
              ELSE error
  /\ UNCHANGED <<nonLoaderVars, gated, strictDev, search, widgets, windowOpenai, hasOpenAI,
                 WidgetComponent, pc, intervals, timeouts, cleanupRun,
                 loadEffectPending, moduleMap, lookups, warned, firedAfterUnmount, polledAtUnmount>>

\* React unmounts the component: the cleanup of the last effect run is called.
Unmount ==
  /\ pc = "running"
  /\ pc' = "unmounted"
  /\ CheckCleanup
  /\ loadEffectPending' = FALSE
  /\ polledAtUnmount' = (intervals # {})
  /\ UNCHANGED <<nonLoaderVars, gated, strictDev, search, widgets, windowOpenai, hasOpenAI, error,
                 WidgetComponent, loads, moduleMap, lookups, warned,
                 firedAfterUnmount>>

NextLoader ==
  \/ MountEffects
  \/ StrictCleanup
  \/ RunLoadEffect
  \/ HostInject
  \/ \E r \in {1, 2} : PollTick(r)
  \/ \E r \in {1, 2} : PollTimeout(r)
  \/ \E i \in 1..Len(ModuleUniverse) : FetchSettle(i)
  \/ \E k \in 1..2 : LoadThen(k)
  \/ \E k \in 1..2 : LoadCatch(k)
  \/ Unmount

SpecLoader == InitLoader /\ [][NextLoader]_vars

\* React runs committed effects, the browser settles a started fetch and runs
\* the promise callbacks of a settled load.
FairSpecLoader ==
  /\ SpecLoader
  /\ WF_vars(MountEffects)
  /\ WF_vars(StrictCleanup)
  /\ WF_vars(RunLoadEffect)
  /\ \A i \in 1..Len(ModuleUniverse) : WF_vars(FetchSettle(i))
  /\ \A k \in 1..2 : WF_vars(LoadThen(k)) /\ WF_vars(LoadCatch(k))

(***************************************************************************)
(* Claims about the loader                                                 *)
(***************************************************************************)
Contains(msg, tok) == \E i \in 1..Len(msg) : msg[i] = tok

ModuleNames ==
  {ModuleUniverse[i] : i \in {j \in 1..Len(ModuleUniverse) :
                                 HasKey(widgets, WidgetPath(ModuleUniverse[j]))}}

\* C1: whenever the load effect has looked up a selector that is not the name
\* of a module of the glob set, no module load was started, the loader shows
\* the error view, and the error message contains the selector and every
\* name of the module set.
C1_UnknownSelectorEndsInError ==
  \A k \in 1..Len(lookups) :
    lookups[k].selector \notin ModuleNames =>
      /\ loads = <<>>
      /\ error # NoError
      /\ pc # "unmounted" => LoaderState = "error"
      /\ Contains(error, lookups[k].selector)
      /\ \A n \in ModuleNames : Contains(error, n)

C1_Witness ==
  /\ pc = "running"
  /\ Len(lookups) > 0
  /\ lookups[1].selector = "nope"
  /\ ModuleNames = {"pokemon", "todo"}
  /\ LoaderState = "error"

\* C2 (state part): every load started is the load of the module named by a
\* selector that was looked up and matched, one load per matching lookup;
\* while mounted, a fulfilled load leaves the loader in loaded rendering that
\* module's default export, a rejected load leaves it in error with a message
\* containing the selector and the failure reason.
C2_LoadOutcome ==
  /\ Len(loads) = Cardinality({j \in 1..Len(lookups) : HasKey(widgets, lookups[j].key)})
  /\ \A k \in 1..Len(loads) :
       /\ \E j \in 1..Len(lookups) :
            /\ lookups[j].selector = loads[k].name
            /\ lookups[j].key = WidgetPath(loads[k].name)
       /\ loads[k].name \in ModuleNames
       /\ (pc = "running" /\ loads[k].status = "fulfilled") =>
            /\ LoaderState = "loaded"
            /\ Render = <<"Widget", loads[k].name>>
            /\ WidgetComponent = <<"component", loads[k].name>>
       /\ (pc = "running" /\ loads[k].status = "rejected") =>
            /\ LoaderState = "error"
            /\ Contains(error, loads[k].name)
            /\ \E x \in Reasons :
                 /\ moduleMap[ModuleIndex(loads[k].name)] = <<"failed", x>>
                 /\ Contains(error, x)

C3_NothingBeforeHostSignal ==
  (gated /\ ~hasOpenAI) =>
    /\ lookups = <<>>
    /\ loads = <<>>
    /\ error = NoError
    /\ WidgetComponent = <<"null">>
    /\ pc # "unmounted" => Render = <<"NoOpenAIFallback">>

C3_OrderedStep ==
  gated =>
    \/ LoaderState' = LoaderState
    \/ LoaderState' = "unmounted"
    \/ LoaderState = "awaiting-host-signal" /\ LoaderState' = "resolving"
    \/ LoaderState = "resolving" /\ LoaderState' \in {"loaded", "error"}

\* C3: in the gated loader the state only moves awaiting-host-signal ->
\* resolving -> loaded or error (or to unmounted), and while hasOpenAI is
\* false no selector has been read, no load started and only the waiting
\* fallback is rendered.
C3_GatedOrder ==
  /\ []C3_NothingBeforeHostSignal
  /\ [][C3_OrderedStep]_vars

C3_Witness ==
  /\ gated
  /\ pc = "running"
  /\ hasOpenAI
  /\ Len(lookups) = 1
  /\ Len(loads) = 1
  /\ LoaderState = "loaded"

\* C4: once the loader is unmounted, no poll interval and no timeout of the
\* mount is pending, and no timer callback of the mount has run after the
\* unmount.
C4_NoTimersAfterUnmount ==
  pc = "unmounted" =>
    /\ intervals = {}
    /\ timeouts = {}
    /\ ~firedAfterUnmount

C4_Witness ==
  /\ gated
  /\ pc = "unmounted"
  /\ polledAtUnmount
  /\ windowOpenai

WidgetParamPresent == \E i \in 1..Len(search) : search[i][1] = "widget"

FirstWidgetParam ==
  search[CHOOSE i \in 1..Len(search) :
           /\ search[i][1] = "widget"
           /\ \A j \in 1..(i - 1) : search[j][1] # "widget"][2]

\* C5 as stated: the selector is the value of the widget parameter whenever
\* the parameter is present, pokemon when it is absent.
C5_Original ==
  \A k \in 1..Len(lookups) :
    /\ lookups[k].selector = IF WidgetParamPresent THEN FirstWidgetParam ELSE "pokemon"
    /\ lookups[k].key = <<"./widgets/", lookups[k].selector, ".tsx">>

\* C5 (amended): the selector is the value of the (first) widget parameter
\* when it is present and not empty, and pokemon when the parameter is absent
\* or empty; the key looked up is ./widgets/<selector>.tsx.
C5_SelectorFromQuery ==
  \A k \in 1..Len(lookups) :
    /\ lookups[k].selector =
         IF WidgetParamPresent /\ FirstWidgetParam # "" THEN FirstWidgetParam
         ELSE "pokemon"
    /\ lookups[k].key = <<"./widgets/", lookups[k].selector, ".tsx">>

C5_Witness ==
  /\ Len(lookups) > 0
  /\ WidgetParamPresent
  /\ FirstWidgetParam = ""
  /\ lookups[1].selector = "pokemon"
  /\ Len(loads) > 0

(***************************************************************************)
(* Server: paths and documents                                             *)
(***************************************************************************)
UrlSegments == {"dev", "widget-dev.html", "test-widget.html", "other.html", "app.js", "..", "mcp"}

UrlPaths == UNION {[1..k -> UrlSegments] : k \in 1..MaxSegments}

\* htmlFiles, as relative paths
HtmlFiles == {<<"widget-dev.html">>, <<"test-widget.html">>}

\* segments on which String.endsWith(".html") holds
DotHtml == {"widget-dev.html", "test-widget.html", "other.html"}

EndsWithHtml(requestedFile) ==
  Len(requestedFile) > 0 /\ requestedFile[Len(requestedFile)] \in DotHtml

\* path.join: concatenates and resolves ".." segments
RECURSIVE Normalize(_, _)
Normalize(done, rest) ==
  IF rest = <<>> THEN done
  ELSE IF rest[1] = ".."
       THEN Normalize(IF done = <<>> THEN <<>> ELSE SubSeq(done, 1, Len(done) - 1), Tail(rest))
       ELSE Normalize(Append(done, rest[1]), Tail(rest))

PathJoin(base, rel) == Normalize(<<>>, base \o rel)

IsPrefix(p, q) == Len(p) <= Len(q) /\ SubSeq(q, 1, Len(p)) = p

\* content of a file that can be read
Doc(file) == <<"doc", file>>

\* vite.transformIndexHtml: the document with the HMR client bootstrap injected
TransformIndexHtml(html) == <<"hmr-client", html>>

\* directory the shell documents are read from, per composition
KnownRoot(c) ==
  IF c = "index" THEN <<"web">>
  ELSE IF c = "inline" THEN <<"web", "dev">>
  ELSE <<"web", "public", "dev">>

(***************************************************************************)
(* Server: the three dev shell middlewares.  Each takes the path relative  *)
(* to its mount point (req.path without the leading slash) and the         *)
(* outcomes of readFile and transformIndexHtml, and yields what it did.     *)
(***************************************************************************)
ShellDid(files, log, resp, nexts) ==
  [filesRead |-> files, logged |-> log, response |-> resp, nexts |-> nexts]

Sent(contentType, body) == <<"sent", contentType, body>>

\* Mutant of ShellIndex: the return after res.send is missing, so next() runs
\* after the document was sent.
ShellIndexNoReturn(requestedFile, readOk, transformOk) ==
  IF requestedFile \in HtmlFiles
  THEN LET htmlPath == PathJoin(KnownRoot("index"), requestedFile)
       IN IF readOk
          THEN ShellDid({htmlPath}, FALSE, Sent("text/html", Doc(htmlPath)), <<"plain">>)
          ELSE ShellDid({htmlPath}, TRUE, NoResponse, <<"plain">>)
  ELSE ShellDid({}, FALSE, NoResponse, <<"plain">>)

\* server/src/index.ts: allow-list, no transform, plain next() on failure
ShellIndex(requestedFile, readOk, transformOk) ==
  IF requestedFile \in HtmlFiles
  THEN LET htmlPath == PathJoin(KnownRoot("index"), requestedFile)
       IN IF readOk
          THEN ShellDid({htmlPath}, FALSE, Sent("text/html", Doc(htmlPath)), <<>>)
          ELSE ShellDid({htmlPath}, TRUE, NoResponse, <<"plain">>)
  ELSE ShellDid({}, FALSE, NoResponse, <<"plain">>)

\* inline middleware with vite.transformIndexHtml: allow-list, next(error)
ShellInline(requestedFile, readOk, transformOk) ==
  IF requestedFile \in HtmlFiles
  THEN LET htmlPath == PathJoin(KnownRoot("inline"), requestedFile)
       IN IF readOk /\ transformOk
          THEN ShellDid({htmlPath}, FALSE,
                        Sent("text/html", TransformIndexHtml(Doc(htmlPath))), <<>>)
          ELSE ShellDid({htmlPath}, TRUE, NoResponse, <<"error">>)
  ELSE ShellDid({}, FALSE, NoResponse, <<"plain">>)

\* createWidgetDevServer's devMiddleware: every *.html path, next(error)
ShellPackage(requestedFile, readOk, transformOk) ==
  IF ~EndsWithHtml(requestedFile)
  THEN ShellDid({}, FALSE, NoResponse, <<"plain">>)
  ELSE LET htmlFilePath == PathJoin(KnownRoot("package"), requestedFile)
       IN IF readOk /\ transformOk
          THEN ShellDid({htmlFilePath}, FALSE,
                        Sent("text/html", TransformIndexHtml(Doc(htmlFilePath))), <<>>)
          ELSE ShellDid({htmlFilePath}, TRUE, NoResponse, <<"error">>)

Shell(c, requestedFile, readOk, transformOk) ==
  IF c = "index" THEN ShellIndex(requestedFile, readOk, transformOk)
  ELSE IF c = "inline" THEN ShellInline(requestedFile, readOk, transformOk)
  ELSE ShellPackage(requestedFile, readOk, transformOk)

(***************************************************************************)
(* Server: composition of the app                                          *)
(***************************************************************************)
Handler(kind, mount) == [kind |-> kind, mount |-> mount]

\* Mutant of Compose: the module server is registered before the shell.
ComposeModuleServerFirst(c, env) ==
  <<Handler("json", <<>>), Handler("mcp", <<>>)>> \o
  ( IF env # "production"
    THEN <<Handler("vite", <<>>),
           Handler("shell", IF c = "index" THEN <<>> ELSE <<"dev">>)>>
    ELSE <<Handler("static", <<>>)>> )

\* The app.use calls of the entry point, in order.
Compose(c, env) ==
  <<Handler("json", <<>>), Handler("mcp", <<>>)>> \o
  ( IF env # "production"
    THEN <<Handler("shell", IF c = "index" THEN <<>> ELSE <<"dev">>),
           Handler("vite", <<>>)>>
    ELSE IF c = "package"
         THEN <<Handler("static", <<"dev">>), Handler("static", <<>>)>>
         ELSE <<Handler("static", <<>>)>> )

InitServer ==
  /\ composition \in {"index", "inline", "package"}
  /\ nodeEnv \in {"development", "production"}
  /\ chain = Compose(composition, nodeEnv)
  /\ req = NoReq
  /\ idx = 0
  /\ errorMode = FALSE
  /\ seen = <<>>
  /\ responses = <<>>
  /\ shellRuns = <<>>
  /\ LoaderIdle
  /\ ExtractIdle
  /\ GenIdle
  /\ BindIdle
  /\ PathIdle

(***************************************************************************)
(* Server: dispatch of one request through the chain                       *)
(***************************************************************************)
\* Express router: the first handler after i whose mount path prefixes the
\* request path; Len(chain) + 1 is the final handler.
NextIdx(i, path) ==
  IF \E j \in (i + 1)..Len(chain) : IsPrefix(chain[j].mount, path)
  THEN CHOOSE j \in (i + 1)..Len(chain) :
         /\ IsPrefix(chain[j].mount, path)
         /\ \A k \in (i + 1)..(j - 1) : ~IsPrefix(chain[k].mount, path)
  ELSE Len(chain) + 1

Running(kind) ==
  /\ idx \in 1..Len(chain)
  /\ chain[idx].kind = kind
  /\ responses = <<>>

\* next(): on to the next matching handler
PassOn ==
  /\ idx' = NextIdx(idx, req.path)
  /\ UNCHANGED <<errorMode, responses>>

\* next(err): no error-handling middleware is registered, so the default
\* error handler is next
PassError ==
  /\ idx' = Len(chain) + 1
  /\ errorMode' = TRUE
  /\ UNCHANGED responses

Respond(by, status, contentType, body) ==
  /\ responses' = Append(responses, [by |-> by, status |-> status,
                                     contentType |-> contentType, body |-> body])
  /\ UNCHANGED <<idx, errorMode>>

Arrive(path) ==
  /\ req = NoReq
  /\ req' = [path |-> path]
  /\ idx' = NextIdx(0, path)
  /\ UNCHANGED <<nonServerVars, composition, nodeEnv, chain, errorMode, seen, responses,
                 shellRuns>>

\* express.json(): parses the body, or fails with a 400 error
StepJson ==
  /\ Running("json")
  /\ seen' = Append(seen, "json")
  /\ \/ PassOn
     \/ PassError
  /\ UNCHANGED <<nonServerVars, composition, nodeEnv, chain, req, shellRuns>>

\* mcp(server): answers /mcp, passes everything else on
StepMcp ==
  /\ Running("mcp")
  /\ seen' = Append(seen, "mcp")
  /\ IF req.path = <<"mcp">>
     THEN Respond("mcp", 200, "application/json", <<"mcp">>)
     ELSE PassOn
  /\ UNCHANGED <<nonServerVars, composition, nodeEnv, chain, req, shellRuns>>

\* the dev shell middleware of the composition
StepShell ==
  /\ Running("shell")
  /\ seen' = Append(seen, "shell")
  /\ \E readOk \in BOOLEAN, transformOk \in BOOLEAN :
       LET requestedFile == SubSeq(req.path, Len(chain[idx].mount) + 1, Len(req.path))
           did == Shell(composition, requestedFile, readOk, transformOk)
       IN /\ shellRuns' = Append(shellRuns, [requestedFile |-> requestedFile, readOk |-> readOk,
                          transformOk |-> transformOk, did |-> did])
          /\ responses' = IF did.response = NoResponse THEN responses
                          ELSE Append(responses, [by |-> "shell", status |-> 200,
                                                  contentType |-> did.response[2],
                                                  body |-> did.response[3]])
          /\ idx' = IF did.nexts = <<>> THEN idx
                    ELSE IF did.nexts[1] = "plain" THEN NextIdx(idx, req.path)
                    ELSE Len(chain) + 1
          /\ errorMode' = (did.nexts # <<>> /\ did.nexts[1] = "error")
  /\ UNCHANGED <<nonServerVars, composition, nodeEnv, chain, req>>

\* vite.middlewares: serves a module or asset it knows, passes on otherwise
StepVite ==
  /\ Running("vite")
  /\ seen' = Append(seen, "vite")
  /\ \/ Respond("vite", 200, "module", <<"vite">>)
     \/ PassOn
  /\ UNCHANGED <<nonServerVars, composition, nodeEnv, chain, req, shellRuns>>

\* express.static: serves a file it finds, passes on otherwise
StepStatic ==
  /\ Running("static")
  /\ seen' = Append(seen, "static")
  /\ \/ Respond("static", 200, "file", <<"static">>)
     \/ PassOn
  /\ UNCHANGED <<nonServerVars, composition, nodeEnv, chain, req, shellRuns>>

\* Express's final handler: 404, or the error's status after next(err)
FinalHandler ==
  /\ idx = Len(chain) + 1
  /\ req # NoReq
  /\ responses = <<>>
  /\ seen' = Append(seen, "final")
  /\ IF errorMode
     THEN Respond("final", 500, "text/html", <<"error">>)
     ELSE Respond("final", 404, "text/html", <<"not found">>)
  /\ UNCHANGED <<nonServerVars, composition, nodeEnv, chain, req, shellRuns>>

NextServer ==
  \/ \E path \in UrlPaths : Arrive(path)
  \/ StepJson
  \/ StepMcp
  \/ StepShell
  \/ StepVite
  \/ StepStatic
  \/ FinalHandler

SpecServer == InitServer /\ [][NextServer]_vars

(***************************************************************************)
(* Claims about the dev shell middleware and the handler chain             *)
(***************************************************************************)
ShellDocFile(run) == PathJoin(KnownRoot(composition), run.requestedFile)

\* C6: whenever the shell middleware was invoked for an allow-listed document
\* that was read and whose transform step did not fail, it sent text/html
\* with the transformed document as body and did not call next, in each of
\* the three compositions.
C6_ShellDocServedTransformed ==
  \A k \in 1..Len(shellRuns) :
    LET run == shellRuns[k]
    IN (run.requestedFile \in HtmlFiles /\ run.readOk /\ run.transformOk) =>
         /\ run.did.response = Sent("text/html", TransformIndexHtml(Doc(ShellDocFile(run))))
         /\ run.did.nexts = <<>>
         /\ responses = <<[by |-> "shell", status |-> 200, contentType |-> "text/html",
                           body |-> TransformIndexHtml(Doc(ShellDocFile(run)))]>>

\* C7: whenever the shell middleware was invoked for a path that is not an
\* allow-listed document, it read no file, sent nothing and called plain
\* next() exactly once; every file it ever read is an allow-listed document
\* directly under the known root.
C7_OnlyAllowListedRead ==
  \A k \in 1..Len(shellRuns) :
    LET run == shellRuns[k]
    IN /\ run.requestedFile \notin HtmlFiles =>
            /\ run.did.filesRead = {}
            /\ run.did.response = NoResponse
            /\ run.did.nexts = <<"plain">>
       /\ run.did.filesRead \subseteq {KnownRoot(composition) \o f : f \in HtmlFiles}

\* the read, or the transform where the composition has one, failed
ShellFailed(run) ==
  /\ run.did.filesRead # {}
  /\ ~run.readOk \/ (composition # "index" /\ ~run.transformOk)

\* C8: whenever the read or the transform of a shell document failed, the
\* middleware logged, sent nothing and called plain next() once, so that the
\* request went on to the next ordinary handler and not to the error path.
C8_FailureFallsThrough ==
  \A k \in 1..Len(shellRuns) :
    LET run == shellRuns[k]
    IN ShellFailed(run) =>
         /\ run.did.logged
         /\ run.did.response = NoResponse
         /\ run.did.nexts = <<"plain">>
         /\ ~errorMode

Positions(kind) == {i \in 1..Len(chain) : chain[i].kind = kind}

SeenBefore(a, b) ==
  \E i \in 1..Len(seen) : \E j \in (i + 1)..Len(seen) : seen[i] = a /\ seen[j] = b

IsShellDocRequest ==
  \E i \in Positions("shell") : \E f \in HtmlFiles : req.path = chain[i].mount \o f

\* C9: in development the chain holds the MCP endpoint, then the shell
\* middleware, then the module server, the module server mounted at the
\* root; the module server has seen a request for a shell document only after
\* the shell middleware was invoked for it and passed it on with next().
C9_ShellBeforeModuleServer ==
  nodeEnv = "development" =>
    /\ \A kind \in {"mcp", "shell", "vite"} : Cardinality(Positions(kind)) = 1
    /\ \A m \in Positions("mcp") : \A h \in Positions("shell") : \A v \in Positions("vite") :
         /\ m < h
         /\ h < v
         /\ chain[v].mount = <<>>
    /\ (IsShellDocRequest /\ \E i \in 1..Len(seen) : seen[i] = "vite") =>
         /\ SeenBefore("shell", "vite")
         /\ Len(shellRuns) = 1
         /\ shellRuns[1].did.nexts = <<"plain">>
         /\ shellRuns[1].did.response = NoResponse

C9_Witness ==
  /\ nodeEnv = "development"
  /\ IsShellDocRequest
  /\ seen = <<"json", "mcp", "shell", "vite">>
  /\ Len(responses) = 1

(***************************************************************************)
(* Extractor: values, the shared package, schema nodes                     *)
(* A JavaScript value is a tagged tuple; an object is the sequence of its   *)
(* entries in insertion order.                                             *)
(***************************************************************************)
Null == <<"null">>

Undefined == <<"undef">>

Str(x) == <<"str", x>>

Num(n) == <<"num", n>>

Bool(b) == <<"bool", b>>

Arr(xs) == <<"arr", xs>>

Obj(entries) == <<"obj", entries>>

SchemaOf(node) == <<"schema", node>>

\* JavaScript truthiness
Truthy(v) ==
  /\ v[1] \notin {"null", "undef"}
  /\ ~(v[1] = "num" /\ v[2] = 0)
  /\ ~(v[1] = "str" /\ v[2] = "")
  /\ ~(v[1] = "bool" /\ v[2] = FALSE)

ZString == [typeName |-> "ZodString"]

ZNumber == [typeName |-> "ZodNumber"]

ZBoolean == [typeName |-> "ZodBoolean"]

ZLiteral(v) == [typeName |-> "ZodLiteral", value |-> v]

ZObject(shape) == [typeName |-> "ZodObject", shape |-> shape]

ZArray(element) == [typeName |-> "ZodArray", element |-> element]

ZOptional(inner) == [typeName |-> "ZodOptional", inner |-> inner]

ZNullable(inner) == [typeName |-> "ZodNullable", inner |-> inner]

ZDefault(v) == [typeName |-> "ZodDefault", defaultValue |-> v]

ZEnum(values) == [typeName |-> "ZodEnum", values |-> values]

ZUnion(options) == [typeName |-> "ZodUnion", options |-> options]

\* exports of @apps-sdk-template/shared: example values and schemas
SharedNames ==
  {"demoData", "oldData", "zeroData", "titleText",
   "FlagSchema", "FlagObjSchema", "LitSchema", "StrSchema"}

Shared(id) ==
  CASE id = "demoData" -> Obj(<< <<"a", Num(1)>>, <<"b", Str("x")>> >>)
    [] id = "oldData" -> Obj(<< <<"a", Num(2)>>, <<"b", Str("y")>> >>)
    [] id = "zeroData" -> Num(0)
    [] id = "titleText" -> Str("hello")
    [] id = "FlagSchema" -> SchemaOf(ZBoolean)
    [] id = "FlagObjSchema" -> SchemaOf(ZObject(<< <<"flag", ZBoolean>>, <<"kind", ZLiteral(Str("k"))>> >>))
    [] id = "LitSchema" -> SchemaOf(ZLiteral(Str("k")))
    [] id = "StrSchema" -> SchemaOf(ZString)
    [] OTHER -> Undefined

\* identifiers a source line may name (\w+)
Identifiers == SharedNames \cup {"missingData", "MissingSchema", "defineWidget"}

\* faker.lorem.word()
Words == {"lorem", "ipsum"}

FakerIntMin == 1

FakerIntMax == 100

ArrayMin == 2

ArrayMax == 3

(***************************************************************************)
(* Extractor: generateExampleFromZodSchema, as the set of values one call  *)
(* can return                                                              *)
(***************************************************************************)
\* An outcome of one call: <<"return", value, w>> or <<"throw", Null, w>>, w the
\* number of console.warn diagnostics the call emitted.
Returned(v, w) == <<"return", v, w>>

Thrown(w) == <<"throw", Null, w>>

\* Mutant of FakerInt: the lower limit is lost.
FakerIntFromZero == 0..FakerIntMax

\* faker.number.int({ min: 1, max: 100 })
FakerInt == FakerIntMin..FakerIntMax

\* Mutant of ArrayCounts: the lower limit is lost.
ArrayCountsFromZero == 0..ArrayMax

\* faker.number.int({ min: 2, max: 3 })
ArrayCounts == ArrayMin..ArrayMax

\* Mutant of UnknownKind: an unsupported node raises.
UnknownKindThrows == {Thrown(0)}

\* the final branch: console.warn and return null
UnknownKind == {Returned(Null, 1)}

RECURSIVE GenZod(_)
RECURSIVE GenShape(_)
RECURSIVE GenElements(_, _)

\* the for loop over Object.entries(shape); a throw ends it
GenShape(shape) ==
  IF shape = <<>> THEN {Returned(<<>>, 0)}
  ELSE UNION { IF f[1] = "throw" THEN {f}
               ELSE { IF r[1] = "throw" THEN Thrown(f[3] + r[3])
                      ELSE Returned(<< <<shape[1][1], f[2]>> >> \o r[2], f[3] + r[3]) :
                      r \in GenShape(Tail(shape)) } :
               f \in GenZod(shape[1][2]) }

\* Array.from({ length: count }, () => generate(element)); a throw ends it
GenElements(element, count) ==
  IF count = 0 THEN {Returned(<<>>, 0)}
  ELSE UNION { IF f[1] = "throw" THEN {f}
               ELSE { IF r[1] = "throw" THEN Thrown(f[3] + r[3])
                      ELSE Returned(<<f[2]>> \o r[2], f[3] + r[3]) :
                      r \in GenElements(element, count - 1) } :
               f \in GenZod(element) }

GenZod(schema) ==
  LET typeName == schema.typeName
  IN CASE typeName = "ZodObject" ->
            { IF r[1] = "throw" THEN r ELSE Returned(Obj(r[2]), r[3]) :
                r \in GenShape(schema.shape) }
       [] typeName = "ZodString" -> { Returned(Str(w), 0) : w \in Words }
       [] typeName = "ZodNumber" -> { Returned(Num(n), 0) : n \in FakerInt }
       [] typeName = "ZodBoolean" -> { Returned(Bool(b), 0) : b \in BOOLEAN }
       [] typeName = "ZodArray" ->
            UNION { { IF r[1] = "throw" THEN r ELSE Returned(Arr(r[2]), r[3]) :
                        r \in GenElements(schema.element, count) } :
                      count \in ArrayCounts }
       [] typeName \in {"ZodOptional", "ZodNullable"} -> GenZod(schema.inner)
       [] typeName = "ZodDefault" -> { Returned(schema.defaultValue, 0) }
       [] typeName = "ZodEnum" ->
            { Returned(schema.values[i], 0) : i \in 1..Len(schema.values) }
       [] typeName = "ZodUnion" ->
            UNION { GenZod(schema.options[i]) : i \in 1..Len(schema.options) }
       [] OTHER -> UnknownKind

(***************************************************************************)
(* Extractor: source text.  A line is the sequence of its tokens after      *)
(* trim(); a unit's content is the sequence of its lines.                  *)
(***************************************************************************)
NoMatch == <<>>

\* regex /<key>\s*(\w+)/ on one line: the identifier after the first key
\* token that is followed by one, as <<id>>, or NoMatch
LineMatch(line, keys) ==
  LET hits == {i \in 1..(Len(line) - 1) : line[i] \in keys /\ line[i + 1] \in Identifiers}
  IN IF hits = {} THEN NoMatch
     ELSE <<line[(CHOOSE i \in hits : \A j \in hits : i <= j) + 1]>>

\* the scan loop: first line that does not start with // and matches
RECURSIVE FindRef(_, _)
FindRef(lines, keys) ==
  IF lines = <<>> THEN NoMatch
  ELSE IF Len(lines[1]) > 0 /\ lines[1][1] = "//" THEN FindRef(Tail(lines), keys)
  ELSE IF LineMatch(lines[1], keys) # NoMatch THEN LineMatch(lines[1], keys)
  ELSE FindRef(Tail(lines), keys)

\* Mutant of UsesDefineWidget: the marker test is lost.
AlwaysUsesDefineWidget(lines) == TRUE

\* content.includes("defineWidget")
UsesDefineWidget(lines) ==
  \E i \in 1..Len(lines) : \E j \in 1..Len(lines[i]) : lines[i][j] = "defineWidget"

MarkerLine == <<"export", "default", "defineWidget", "(", "{">>

ExampleLine(id) == <<"exampleOutput:", id, ",">>

SchemaLine(id) == <<"schema:", id, ",">>

\* unit contents the runs are checked on
UnitContents ==
  { <<MarkerLine, ExampleLine("demoData")>>,
    <<MarkerLine, SchemaLine("FlagObjSchema"), ExampleLine("demoData")>>,
    <<MarkerLine, ExampleLine("zeroData"), SchemaLine("FlagObjSchema")>>,
    <<MarkerLine, <<"//">> \o ExampleLine("demoData"), SchemaLine("FlagObjSchema")>>,
    <<<<"/**">>, <<"*">> \o ExampleLine("oldData"), <<"*/">>, MarkerLine, ExampleLine("demoData")>>,
    <<MarkerLine, ExampleLine("missingData")>>,
    <<MarkerLine, <<"exampleOutput:", "(", ")", "=>", "(", "{">>, <<"outputSchema:", "StrSchema", ",">>>>,
    <<MarkerLine, SchemaLine("LitSchema")>>,
    <<MarkerLine, SchemaLine("FlagSchema")>>,
    <<MarkerLine, SchemaLine("MissingSchema")>>,
    <<MarkerLine>>,
    <<MarkerLine, ExampleLine("missingData"), SchemaLine("FlagSchema")>>,
    <<MarkerLine, SchemaLine("titleText")>>,
    <<<<"export", "const", "helper", "=">>, ExampleLine("demoData")>>,
    <<<<"export", "const", "helper", "=">>, SchemaLine("FlagSchema")>> }

UnitNames == <<"pokemon", "todo", "counter">>

WidgetFile(name) == <<"src/widgets/", name, ".tsx">>

\* path.basename(widgetFile, ".tsx")
Basename(file) == file[2]

Units(i) ==
  { [file |-> WidgetFile(UnitNames[i]), readable |-> TRUE, lines |-> c] : c \in UnitContents }
  \cup { [file |-> WidgetFile(UnitNames[i]), readable |-> FALSE, lines |-> <<>>] }

GlobResults ==
  UNION { { fs \in [1..k -> UNION {Units(i) : i \in 1..k}] :
              \A i \in 1..k : fs[i] \in Units(i) } : k \in 0..MaxUnits }

\* JSON.stringify of a value: object entries whose value is undefined are
\* dropped, undefined array elements become null
RECURSIVE JsonOf(_)
JsonOf(v) ==
  IF v[1] = "obj"
  THEN Obj([i \in 1..Len(SelectSeq(v[2], LAMBDA e : e[2] # Undefined)) |->
              <<SelectSeq(v[2], LAMBDA e : e[2] # Undefined)[i][1],
                JsonOf(SelectSeq(v[2], LAMBDA e : e[2] # Undefined)[i][2])>>])
  ELSE IF v[1] = "arr"
  THEN Arr([i \in 1..Len(v[2]) |-> IF v[2][i] = Undefined THEN Null ELSE JsonOf(v[2][i])])
  ELSE v

Stringify(map) ==
  <<"json", [k \in DOMAIN map |-> [name |-> map[k].name,
                                   exampleOutput |-> JsonOf(map[k].exampleOutput)]]>>

(***************************************************************************)
(* Extractor: main                                                         *)
(***************************************************************************)
InitExtract ==
  /\ widgetFiles \in GlobResults
  /\ xpc = "start"
  /\ fileIdx = 0
  /\ metadataMap = <<>>
  /\ outFile = <<"absent">>
  /\ processed = <<>>
  /\ LoaderIdle
  /\ ServerIdle
  /\ GenIdle
  /\ BindIdle
  /\ PathIdle

\* main up to the loop: the empty-glob return, the import of the shared package
Start ==
  /\ xpc = "start"
  /\ IF Len(widgetFiles) = 0
     THEN xpc' = "exit0" /\ UNCHANGED fileIdx
     ELSE \E importOk \in BOOLEAN :
            IF importOk THEN xpc' = "loop" /\ fileIdx' = 1
            ELSE xpc' = "exit1" /\ UNCHANGED fileIdx
  /\ UNCHANGED <<nonExtractVars, widgetFiles, metadataMap, outFile, processed>>

Put(map, key, entry) ==
  [k \in DOMAIN map \cup {key} |-> IF k = key THEN entry ELSE map[k]]

\* what the explicit-example step leaves in exampleOutput
ExplicitExample(lines) ==
  LET exampleName == FindRef(lines, {"exampleOutput:"})
  IN IF exampleName # NoMatch /\ Truthy(Shared(exampleName[1]))
     THEN Shared(exampleName[1])
     ELSE Null

\* what the schema step can leave in exampleOutput, as <<value, caught, tried>>:
\* tried tells whether the try block with the generator call was entered,
\* caught whether its catch caught an exception
SchemaExamples(lines) ==
  LET schemaName == FindRef(lines, {"outputSchema:", "schema:"})
  IN IF schemaName # NoMatch /\ Truthy(Shared(schemaName[1]))
     THEN LET sv == Shared(schemaName[1])
          IN IF sv[1] \in {"str", "num", "bool"}
             THEN { <<Null, TRUE, TRUE>> }  \* 'shape' in schema: TypeError on a primitive
             ELSE { IF o[1] = "throw" THEN <<Null, TRUE, TRUE>> ELSE <<o[2], FALSE, TRUE>> :
                      o \in GenZod(IF sv[1] = "schema" THEN sv[2]
                                   ELSE [typeName |-> "undefined"]) }
     ELSE { <<Null, FALSE, FALSE>> }

\* Mutant of Insertable: every unit with the marker gets an entry.
InsertableAlways(exampleOutput) == TRUE

\* if (exampleOutput): the test that guards the insertion into the map
Insertable(exampleOutput) == Truthy(exampleOutput)

\* Mutant of LoopNext: an exception in the loop body is not caught.
LoopNextRethrow(threw) ==
  IF threw THEN "exit1"
  ELSE IF fileIdx = Len(widgetFiles) THEN "write" ELSE "loop"

\* where main goes after one unit: the body's catch swallows what it threw
LoopNext(threw) ==
  IF fileIdx = Len(widgetFiles) THEN "write" ELSE "loop"

Processed(widgetName, did, caught, generated, exampleOutput) ==
  [name |-> widgetName, did |-> did, caught |-> caught, generated |-> generated,
   exampleOutput |-> exampleOutput]

\* one iteration of the for loop, with its try/catch
ProcessUnit ==
  /\ xpc = "loop"
  /\ fileIdx \in 1..Len(widgetFiles)
  /\ LET u == widgetFiles[fileIdx]
         widgetName == Basename(u.file)
     IN IF ~u.readable
        THEN /\ processed' = Append(processed, Processed(widgetName, "failed", TRUE, FALSE, Null))
             /\ UNCHANGED metadataMap
        ELSE IF ~UsesDefineWidget(u.lines)
        THEN /\ processed' = Append(processed, Processed(widgetName, "skipped", FALSE, FALSE, Null))
             /\ UNCHANGED metadataMap
        ELSE LET explicit == ExplicitExample(u.lines)
             IN \E ex \in (IF Truthy(explicit) THEN { <<explicit, FALSE, FALSE>> }
                           ELSE SchemaExamples(u.lines)) :
                  /\ processed' = Append(processed,
                        Processed(widgetName,
                                  IF Truthy(explicit) THEN "explicit" ELSE "schema",
                                  ex[2], ex[3], ex[1]))
                  /\ metadataMap' =
                       IF Insertable(ex[1])
                       THEN Put(metadataMap, widgetName,
                                [name |-> widgetName, exampleOutput |-> ex[1]])
                       ELSE metadataMap
  /\ fileIdx' = fileIdx + 1
  /\ xpc' = LoopNext(~widgetFiles[fileIdx].readable)
  /\ UNCHANGED <<nonExtractVars, widgetFiles, outFile>>

\* mkdir and writeFile of the output; a failure rejects main -> exit(1)
WriteOutput ==
  /\ xpc = "write"
  /\ \/ /\ outFile' = Stringify(metadataMap)
        /\ xpc' = "exit0"
     \/ /\ outFile' \in {outFile, <<"partial">>}
        /\ xpc' = "exit1"
  /\ UNCHANGED <<nonExtractVars, widgetFiles, fileIdx, metadataMap, processed>>

NextExtract ==
  \/ Start
  \/ ProcessUnit
  \/ WriteOutput

SpecExtract == InitExtract /\ [][NextExtract]_vars

(***************************************************************************)
(* Generator: calls of generateExampleFromZodSchema on one schema node     *)
(***************************************************************************)
\* a node of a kind the generator has no branch for
ZDate == [typeName |-> "ZodDate"]

\* schema nodes the calls are checked on
GenSchemas ==
  { ZString, ZNumber, ZBoolean,
    ZArray(ZBoolean), ZArray(ZString), ZArray(ZArray(ZBoolean)),
    ZObject(<<>>),
    ZObject(<< <<"id", ZNumber>>, <<"name", ZString>> >>),
    ZObject(<< <<"tags", ZArray(ZBoolean)>>, <<"ok", ZBoolean>> >>),
    ZArray(ZObject(<< <<"ok", ZBoolean>> >>)),
    ZLiteral(Str("k")),
    ZObject(<< <<"kind", ZLiteral(Str("k"))>>, <<"ok", ZBoolean>> >>),
    ZArray(ZLiteral(Num(5))),
    ZUnion(<<ZLiteral(Str("a")), ZLiteral(Str("b"))>>),
    ZOptional(ZString), ZNullable(ZBoolean),
    ZObject(<< <<"nick", ZOptional(ZString)>>, <<"age", ZNullable(ZNumber)>> >>),
    ZDefault(Num(7)),
    ZEnum(<<Str("a"), Str("b")>>),
    ZUnion(<<ZString, ZBoolean>>),
    ZDate,
    ZObject(<< <<"at", ZDate>>, <<"ok", ZBoolean>> >>),
    ZArray(ZDate) }

InitGen ==
  /\ genSchema \in GenSchemas
  /\ gpc = "ready"
  /\ genOutcome = NoOutcome
  /\ genCalls = 0
  /\ LoaderIdle
  /\ ServerIdle
  /\ ExtractIdle
  /\ BindIdle
  /\ PathIdle

\* one call of the generator on the node
Generate ==
  /\ gpc = "ready"
  /\ \E o \in GenZod(genSchema) : genOutcome' = o
  /\ gpc' = "done"
  /\ genCalls' = genCalls + 1
  /\ UNCHANGED <<nonGenVars, genSchema>>

\* the caller drops the result and is about to call again on the same node
CallAgain ==
  /\ gpc = "done"
  /\ genCalls < MaxCalls
  /\ gpc' = "ready"
  /\ genOutcome' = NoOutcome
  /\ UNCHANGED <<nonGenVars, genSchema, genCalls>>

NextGen ==
  \/ Generate
  \/ CallAgain

SpecGen == InitGen /\ [][NextGen]_vars

(***************************************************************************)
(* Extractor claims                                                        *)
(***************************************************************************)
\* the unit has the line `exampleOutput: <id>` outside any comment
HasExampleLine(lines, id) ==
  \E i \in 1..Len(lines) : lines[i] = ExampleLine(id)

\* units the loop has already been through
Done(i) == i \in 1..Len(processed)

\* C10: once the loop has been through a readable unit that contains the
\* registration marker and a non-comment line `exampleOutput: <id>` whose
\* <id> the shared module exports with value V, the map has the entry keyed
\* by the unit's basename and that entry is {name: basename, exampleOutput: V}
\* with V itself; and every key k of the map has map[k].name = k.
C10_ExplicitExampleVerbatim ==
  /\ \A i \in 1..Len(widgetFiles) : \A id \in SharedNames :
       ( /\ Done(i)
         /\ widgetFiles[i].readable
         /\ UsesDefineWidget(widgetFiles[i].lines)
         /\ HasExampleLine(widgetFiles[i].lines, id) )
       => /\ Basename(widgetFiles[i].file) \in DOMAIN metadataMap
          /\ metadataMap[Basename(widgetFiles[i].file)] =
               [name |-> Basename(widgetFiles[i].file), exampleOutput |-> Shared(id)]
  /\ \A k \in DOMAIN metadataMap : metadataMap[k].name = k

\* the unit's text holds the registration marker
HasMarker(lines) ==
  \E i \in 1..Len(lines) : \E j \in 1..Len(lines[i]) : lines[i][j] = "defineWidget"

NoMarkerUnit(i) ==
  /\ Done(i)
  /\ widgetFiles[i].readable
  /\ ~HasMarker(widgetFiles[i].lines)

\* C11: a unit without the registration marker that the loop has been through
\* has no entry in the map, whatever example or schema line it holds, and it
\* is not what ends the run: main goes on to the next unit or to the write, and
\* the run can end non-zero only at the write of the output, after every unit.
C11_NoMarkerNoEntry ==
  \A i \in 1..Len(widgetFiles) :
    NoMarkerUnit(i) =>
      /\ Basename(widgetFiles[i].file) \notin DOMAIN metadataMap
      /\ processed[i].did = "skipped"
      /\ xpc \in {"loop", "write", "exit0", "exit1"}
      /\ xpc = "exit1" => Len(processed) = Len(widgetFiles)

C11_Witness ==
  /\ xpc = "exit0"
  /\ outFile = Stringify(metadataMap)
  /\ \E i \in 1..Len(widgetFiles) :
       /\ NoMarkerUnit(i)
       /\ HasExampleLine(widgetFiles[i].lines, "demoData")
       /\ Basename(widgetFiles[i].file) \notin DOMAIN metadataMap
  /\ \E i \in 1..Len(widgetFiles) :
       Basename(widgetFiles[i].file) \in DOMAIN metadataMap

\* a line that is not inside a line comment or a block comment
NonCommentLine(line) ==
  line = <<>> \/ line[1] \notin {"//", "/**", "*", "*/"}

\* an `exampleOutput: <id>` token stands on one of the unit's non-comment lines
ExampleTokenFound(lines) ==
  \E i \in 1..Len(lines) :
    NonCommentLine(lines[i]) /\ LineMatch(lines[i], {"exampleOutput:"}) # NoMatch

MarkerUnit(i) ==
  /\ Done(i)
  /\ widgetFiles[i].readable
  /\ HasMarker(widgetFiles[i].lines)

\* C12: for a unit with the marker on whose non-comment lines an explicit
\* example-reference token is found, the schema-generation path is not taken:
\* the generator is not run for the unit and its entry, if any, does not come
\* from the schema step.
C12_NoSchemaPathWhenExampleTokenFound ==
  \A i \in 1..Len(widgetFiles) :
    (MarkerUnit(i) /\ ExampleTokenFound(widgetFiles[i].lines)) =>
      ~processed[i].generated

\* neither reference is found in the unit, or no reference found names an
\* export of the shared module
NothingResolves(lines) ==
  LET exampleName == FindRef(lines, {"exampleOutput:"})
      schemaName == FindRef(lines, {"outputSchema:", "schema:"})
  IN /\ exampleName # NoMatch => exampleName[1] \notin SharedNames
     /\ schemaName # NoMatch => schemaName[1] \notin SharedNames

\* null, undefined or another empty value
Placeholder(v) ==
  \/ v[1] \in {"null", "undef"}
  \/ v[1] = "num" /\ v[2] = 0
  \/ v[1] = "str" /\ v[2] = ""
  \/ v[1] = "bool" /\ v[2] = FALSE

C14_WriteAllOrFail ==
  /\ xpc = "exit0" =>
       /\ outFile = Stringify(metadataMap)
       /\ Len(processed) = Len(widgetFiles)
  /\ xpc = "exit1" => outFile = <<"absent">>
  /\ outFile # <<"absent">> =>
       /\ Len(processed) = Len(widgetFiles)
       /\ xpc \in {"exit0", "exit1"}

\* some reference is found in the unit and no reference found resolves
Unresolved(lines) ==
  /\ NothingResolves(lines)
  /\ \/ FindRef(lines, {"exampleOutput:"}) # NoMatch
     \/ FindRef(lines, {"outputSchema:", "schema:"}) # NoMatch

\* processing of unit i failed: the read failed, the schema generation threw,
\* or no identifier resolved
FailedUnit(i, proc) ==
  \/ ~widgetFiles[i].readable
  \/ proc[i].caught
  \/ /\ widgetFiles[i].readable
     /\ HasMarker(widgetFiles[i].lines)
     /\ Unresolved(widgetFiles[i].lines)

\* a step in which the loop has been through a unit whose processing failed
\* keeps the map as it was and goes on to the next unit, or to the write
C15_FailedUnitStep ==
  ( /\ Len(processed') = Len(processed) + 1
    /\ FailedUnit(Len(processed'), processed') )
  => /\ metadataMap' = metadataMap
     /\ fileIdx' = fileIdx + 1
     /\ xpc' = IF Len(processed') < Len(widgetFiles) THEN "loop" ELSE "write"

\* the run does not end inside the loop: it fails only before the first unit
\* (import of the shared module) or at the write of the output
C15_RunNotFailedByUnit ==
  /\ xpc = "loop" => fileIdx \in 1..Len(widgetFiles) /\ Len(processed) = fileIdx - 1
  /\ xpc = "exit1" => processed = <<>> \/ Len(processed) = Len(widgetFiles)
  /\ (xpc = "exit0" /\ widgetFiles # <<>>) =>
       /\ Len(processed) = Len(widgetFiles)
       /\ outFile = Stringify(metadataMap)

\* C15: a failure while one unit is processed (read error, unresolved
\* identifier, exception during schema generation) leaves the accumulated
\* entries unchanged and the loop goes on with the remaining units; no unit
\* makes the run fail, which still writes the map and exits zero.
C15_UnitFailureIsLocal ==
  []C15_RunNotFailedByUnit /\ [][C15_FailedUnitStep]_vars

C15_Witness ==
  /\ xpc = "exit0"
  /\ outFile = Stringify(metadataMap)
  /\ Len(processed) = 2
  /\ Basename(widgetFiles[1].file) \in DOMAIN metadataMap
  /\ FailedUnit(2, processed)
  /\ processed[2].caught

(***************************************************************************)
(* Generator claims                                                        *)
(***************************************************************************)
\* the node is built from string, number, boolean, array and object only
RECURSIVE BasicOnly(_)
BasicOnly(node) ==
  CASE node.typeName \in {"ZodString", "ZodNumber", "ZodBoolean"} -> TRUE
    [] node.typeName = "ZodArray" -> BasicOnly(node.element)
    [] node.typeName = "ZodObject" ->
         \A i \in 1..Len(node.shape) : BasicOnly(node.shape[i][2])
    [] OTHER -> FALSE

\* the value is of the kind a basic node declares
RECURSIVE Conforms(_, _)
Conforms(v, node) ==
  CASE node.typeName = "ZodString" -> v[1] = "str"
    [] node.typeName = "ZodNumber" -> v[1] = "num" /\ v[2] \in Int /\ v[2] >= 1 /\ v[2] <= 100
    [] node.typeName = "ZodBoolean" -> v[1] = "bool" /\ v[2] \in BOOLEAN
    [] node.typeName = "ZodArray" ->
         /\ v[1] = "arr"
         /\ \A i \in 1..Len(v[2]) : Conforms(v[2][i], node.element)
    [] node.typeName = "ZodObject" ->
         /\ v[1] = "obj"
         /\ Len(v[2]) = Len(node.shape)
         /\ {v[2][i][1] : i \in 1..Len(v[2])} = {node.shape[i][1] : i \in 1..Len(node.shape)}
         /\ \A i \in 1..Len(v[2]) : \A j \in 1..Len(node.shape) :
              v[2][i][1] = node.shape[j][1] => Conforms(v[2][i][2], node.shape[j][2])
    [] OTHER -> FALSE

\* C16: a call on a node built only from string, number, boolean, array and
\* object returns a value of the node's kind: text, an integer in [1,100], a
\* boolean, a sequence whose elements match the element node, a mapping with
\* exactly the declared fields, each matching its node.
C16_BasicKindsConform ==
  (gpc = "done" /\ BasicOnly(genSchema)) =>
    /\ genOutcome[1] = "return"
    /\ Conforms(genOutcome[2], genSchema)

C16_Witness ==
  /\ gpc = "done"
  /\ genSchema = ZObject(<< <<"id", ZNumber>>, <<"name", ZString>> >>)
  /\ genOutcome = Returned(Obj(<< <<"id", Num(100)>>, <<"name", Str("ipsum")>> >>), 0)

\* every sequence in the value, at any depth, has between 1 and 3 elements
RECURSIVE ArrayLengthsWithin(_)
ArrayLengthsWithin(v) ==
  CASE v[1] = "arr" ->
         /\ Len(v[2]) >= 1
         /\ Len(v[2]) <= 3
         /\ \A i \in 1..Len(v[2]) : ArrayLengthsWithin(v[2][i])
    [] v[1] = "obj" -> \A i \in 1..Len(v[2]) : ArrayLengthsWithin(v[2][i][2])
    [] OTHER -> TRUE

\* the node holds an array node
RECURSIVE HasArrayNode(_)
HasArrayNode(node) ==
  CASE node.typeName = "ZodArray" -> TRUE
    [] node.typeName = "ZodObject" ->
         \E i \in 1..Len(node.shape) : HasArrayNode(node.shape[i][2])
    [] node.typeName \in {"ZodOptional", "ZodNullable"} -> HasArrayNode(node.inner)
    [] node.typeName = "ZodUnion" ->
         \E i \in 1..Len(node.options) : HasArrayNode(node.options[i])
    [] OTHER -> FALSE

\* C17: on every call, every sequence generated for an array node, also one
\* nested in an object or in another array, has a length between 1 and 3.
C17_ArrayLengthWithinBound ==
  (gpc = "done" /\ HasArrayNode(genSchema)) =>
    /\ genOutcome[1] = "return"
    /\ genOutcome[2][1] \in {"arr", "obj"}
    /\ ArrayLengthsWithin(genOutcome[2])

C17_Witness ==
  /\ gpc = "done"
  /\ genCalls = 2
  /\ genSchema = ZArray(ZArray(ZBoolean))
  /\ genOutcome[1] = "return"
  /\ Len(genOutcome[2][2]) = 3
  /\ Len(genOutcome[2][2][1][2]) = 2

\* the value holds the fixed value of every literal node: at the node itself,
\* as an object field, as an array element, as a union alternative
RECURSIVE LiteralsKept(_, _)
LiteralsKept(v, node) ==
  CASE node.typeName = "ZodLiteral" -> v[1] = node.value[1] /\ v = node.value
    [] node.typeName = "ZodObject" ->
         /\ v[1] = "obj"
         /\ Len(v[2]) = Len(node.shape)
         /\ \A i \in 1..Len(node.shape) : LiteralsKept(v[2][i][2], node.shape[i][2])
    [] node.typeName = "ZodArray" ->
         /\ v[1] = "arr"
         /\ \A i \in 1..Len(v[2]) : LiteralsKept(v[2][i], node.element)
    [] node.typeName = "ZodUnion" ->
         \E i \in 1..Len(node.options) : LiteralsKept(v, node.options[i])
    [] OTHER -> TRUE

\* C18: on every call, a literal node with fixed value X yields exactly X,
\* also as a field of an object, an element of an array or an alternative of
\* a union.
C18_LiteralReturnsItsValue ==
  gpc = "done" =>
    /\ genOutcome[1] = "return"
    /\ LiteralsKept(genOutcome[2], genSchema)

\* node kinds the generator rules name; any other kind is unsupported
NamedKinds ==
  {"ZodObject", "ZodString", "ZodNumber", "ZodBoolean", "ZodArray", "ZodOptional",
   "ZodNullable", "ZodLiteral", "ZodDefault", "ZodEnum", "ZodUnion"}

\* the value has null where the node is of an unsupported kind, and the
\* enclosing objects and arrays are complete around it
RECURSIVE NullWhereUnsupported(_, _)
NullWhereUnsupported(v, node) ==
  CASE node.typeName \notin NamedKinds -> v = Null
    [] node.typeName = "ZodObject" ->
         /\ v[1] = "obj"
         /\ Len(v[2]) = Len(node.shape)
         /\ \A i \in 1..Len(node.shape) :
              /\ v[2][i][1] = node.shape[i][1]
              /\ NullWhereUnsupported(v[2][i][2], node.shape[i][2])
    [] node.typeName = "ZodArray" ->
         /\ v[1] = "arr"
         /\ Len(v[2]) >= 1
         /\ \A i \in 1..Len(v[2]) : NullWhereUnsupported(v[2][i], node.element)
    [] node.typeName \in {"ZodOptional", "ZodNullable"} ->
         NullWhereUnsupported(v, node.inner)
    [] node.typeName = "ZodUnion" ->
         \E i \in 1..Len(node.options) : NullWhereUnsupported(v, node.options[i])
    [] OTHER -> TRUE

\* number of unsupported nodes the call went through to build the value
RECURSIVE UnsupportedVisits(_, _)
RECURSIVE SumVisits(_, _, _)
SumVisits(vs, nodeAt(_), n) ==
  IF n = 0 THEN 0
  ELSE UnsupportedVisits(vs[n], nodeAt(n)) + SumVisits(vs, nodeAt, n - 1)

UnsupportedVisits(v, node) ==
  CASE node.typeName \notin NamedKinds -> 1
    [] node.typeName = "ZodObject" /\ v[1] = "obj" ->
         LET fieldValues == [i \in 1..Len(v[2]) |-> v[2][i][2]]
             fieldNode(i) == node.shape[i][2]
         IN SumVisits(fieldValues, fieldNode, Len(v[2]))
    [] node.typeName = "ZodArray" /\ v[1] = "arr" ->
         LET elementNode(i) == node.element
         IN SumVisits(v[2], elementNode, Len(v[2]))
    [] node.typeName \in {"ZodOptional", "ZodNullable"} ->
         UnsupportedVisits(v, node.inner)
    [] OTHER -> 0

\* C19: every call returns a value and none raises; where the node, at any
\* depth, is of an unsupported kind the value is null there, the enclosing
\* object or array is complete, and one diagnostic was emitted for each such
\* node the call went through.
C19_UnsupportedNodeYieldsNull ==
  gpc = "done" =>
    /\ genOutcome[1] = "return"
    /\ NullWhereUnsupported(genOutcome[2], genSchema)
    /\ genOutcome[3] >= UnsupportedVisits(genOutcome[2], genSchema)

C19_Witness ==
  /\ gpc = "done"
  /\ genSchema = ZObject(<< <<"at", ZDate>>, <<"ok", ZBoolean>> >>)
  /\ genOutcome = Returned(Obj(<< <<"at", Null>>, <<"ok", Bool(TRUE)>> >>), 1)

\* the values a call on the node can return
PossibleValues(node) == { o[2] : o \in { r \in GenZod(node) : r[1] = "return" } }

\* C20: a call on an optional node has two possible outcomes, absence or a
\* value generated from the wrapped node, and a call on a nullable node has
\* two, an explicit null or a value generated from the wrapped node; a call
\* yields one of them and each of them is the result of some call.
C20_OptionalNullableTwoOutcomes ==
  gpc = "done" =>
    /\ genSchema.typeName = "ZodOptional" =>
         /\ genOutcome[1] = "return"
         /\ genOutcome[2] \in PossibleValues(genSchema.inner) \cup {Undefined}
         /\ PossibleValues(genSchema) = PossibleValues(genSchema.inner) \cup {Undefined}
    /\ genSchema.typeName = "ZodNullable" =>
         /\ genOutcome[1] = "return"
         /\ genOutcome[2] \in PossibleValues(genSchema.inner) \cup {Null}
         /\ PossibleValues(genSchema) = PossibleValues(genSchema.inner) \cup {Null}

(***************************************************************************)
(* Binder: defineWidget.  Objects have identity: a reference Ref(id) names *)
(* heap[id]; two references are the same object iff their ids are equal.    *)
(***************************************************************************)
Ref(id) == <<"ref", id>>

Fn(p) == <<"fn", p>>

Components == {"Card", "List"}

BindSchemas == {"PokemonSchema", "UserSchema"}

\* example producers: one returns an object that exists, one builds a new
\* object on each call, one throws
Producers == {"constant", "fresh", "throws"}

\* objects the author's module holds before any call
AuthorHeap == << Obj(<< <<"id", Num(25)>> >>), Obj(<< <<"id", Num(7)>> >>) >>

\* values of definition.exampleOutput
ExampleArgs ==
  {Undefined, Null, Num(0), Ref(1)} \cup { Fn(p) : p \in Producers }

Definitions == [schema : BindSchemas, exampleOutput : ExampleArgs, component : Components]

Unbound == [bound |-> FALSE, schema |-> "none", exampleOutput |-> Undefined]

Resolved(h, outcome, invoked, mocks) ==
  [heap |-> h, outcome |-> outcome, invoked |-> invoked, mocks |-> mocks]

\* one invocation of producer p
RunProducer(h, p) ==
  CASE p = "constant" -> [heap |-> h, outcome |-> <<"return", Ref(2)>>]
    [] p = "fresh" -> [heap |-> Append(h, Obj(<< <<"id", Num(1)>> >>)),
                       outcome |-> <<"return", Ref(Len(h) + 1)>>]
    [] OTHER -> [heap |-> h, outcome |-> <<"throw", "boom">>]

\* generateMockFromSchema(schema): a new object of random content
GenerateMock(h, schema) ==
  { Resolved(Append(h, <<"mock", schema, w>>), <<"return", Ref(Len(h) + 1)>>, <<>>, 1) :
      w \in Words }

\* Mutant of UseValue: the example is copied.
UseValueCopy(h, exampleOutput) ==
  IF exampleOutput[1] = "ref"
  THEN { Resolved(Append(h, h[exampleOutput[2]]), <<"return", Ref(Len(h) + 1)>>, <<>>, 0) }
  ELSE { Resolved(h, <<"return", exampleOutput>>, <<>>, 0) }

\* resolvedExample = exampleOutput
UseValue(h, exampleOutput) ==
  { Resolved(h, <<"return", exampleOutput>>, <<>>, 0) }

\* Mutant of InvokeProducer: the producer is called a second time.
InvokeProducerTwice(h, p) ==
  LET first == RunProducer(h, p)
      second == RunProducer(first.heap, p)
  IN IF first.outcome[1] = "throw"
     THEN { Resolved(first.heap, first.outcome, <<p>>, 0) }
     ELSE { Resolved(second.heap, second.outcome, <<p, p>>, 0) }

\* resolvedExample = exampleOutput()
InvokeProducer(h, p) ==
  LET r == RunProducer(h, p)
  IN { Resolved(r.heap, r.outcome, <<p>>, 0) }

\* lines 79-89: what resolvedExample becomes, or the exception
ResolveExample(h, schema, exampleOutput) ==
  IF exampleOutput[1] # "undef"
  THEN IF exampleOutput[1] = "fn"
       THEN InvokeProducer(h, exampleOutput[2])
       ELSE UseValue(h, exampleOutput)
  ELSE GenerateMock(h, schema)

\* Mutant of AfterThrow: the schema is attached before the example is resolved.
AfterThrowPartial(m, definition) ==
  [m EXCEPT ![definition.component] =
     [bound |-> TRUE, schema |-> definition.schema, exampleOutput |-> Undefined]]

\* the exception leaves defineWidget before line 95: nothing is attached
AfterThrow(m, definition) == m

\* Component.__widgetMeta = { schema, exampleOutput: resolvedExample }
Attach(m, definition, resolvedExample) ==
  [m EXCEPT ![definition.component] =
     [bound |-> TRUE, schema |-> definition.schema, exampleOutput |-> resolvedExample]]

RECURSIVE CountIn(_, _)
CountIn(invoked, p) ==
  IF invoked = <<>> THEN 0
  ELSE (IF invoked[1] = p THEN 1 ELSE 0) + CountIn(Tail(invoked), p)

InitBind ==
  /\ heap = AuthorHeap
  /\ meta = [c \in Components |-> Unbound]
  /\ producerCalls = [p \in Producers |-> 0]
  /\ mockCalls = 0
  /\ lastCall = <<"none">>
  /\ nBinds = 0
  /\ lastRead = <<"none">>
  /\ LoaderIdle
  /\ ServerIdle
  /\ ExtractIdle
  /\ GenIdle
  /\ PathIdle

\* one call of defineWidget
DefineWidget(definition) ==
  /\ nBinds < MaxBinds
  /\ \E r \in ResolveExample(heap, definition.schema, definition.exampleOutput) :
       /\ heap' = r.heap
       /\ producerCalls' = [p \in Producers |-> producerCalls[p] + CountIn(r.invoked, p)]
       /\ mockCalls' = mockCalls + r.mocks
       /\ IF r.outcome[1] = "throw"
          THEN /\ meta' = AfterThrow(meta, definition)
               /\ lastCall' = <<"call", definition, <<"threw", r.outcome[2]>>, r.invoked>>
          ELSE /\ meta' = Attach(meta, definition, r.outcome[2])
               /\ lastCall' = <<"call", definition, <<"returned", definition.component>>,
                                r.invoked>>
  /\ nBinds' = nBinds + 1
  /\ UNCHANGED <<nonBindVars, lastRead>>

\* a consumer reads Component.__widgetMeta
ReadMeta(c) ==
  /\ lastRead' = <<"read", c, meta[c]>>
  /\ UNCHANGED <<nonBindVars, heap, meta, producerCalls, mockCalls, lastCall, nBinds>>

NextBind ==
  \/ \E definition \in Definitions : DefineWidget(definition)
  \/ \E c \in Components : ReadMeta(c)

SpecBind == InitBind /\ [][NextBind]_vars

(***************************************************************************)
(* Binder claims                                                           *)
(***************************************************************************)
\* the step is a defineWidget call
BindStep == nBinds' = nBinds + 1

\* the same value: for objects, the same identity
SameValue(x, y) == x[1] = y[1] /\ x = y

\* the example argument is a concrete value: given, and not a producer
ConcreteExample(definition) == definition.exampleOutput[1] \notin {"undef", "fn"}

\* C21: a defineWidget call whose example argument is a concrete value E
\* returns the component with E itself attached as resolved example (the same
\* object, no copy), leaves every object as it was and does not invoke the
\* mock generator.
C21_ExplicitExampleKept ==
  [][ (BindStep /\ ConcreteExample(lastCall'[2])) =>
        /\ lastCall'[3] = <<"returned", lastCall'[2].component>>
        /\ meta'[lastCall'[2].component].bound
        /\ meta'[lastCall'[2].component].schema = lastCall'[2].schema
        /\ SameValue(meta'[lastCall'[2].component].exampleOutput, lastCall'[2].exampleOutput)
        /\ heap' = heap
        /\ mockCalls' = mockCalls
        /\ producerCalls' = producerCalls ]_vars

C21_Witness ==
  /\ nBinds = 1
  /\ lastCall[2].exampleOutput = Ref(1)
  /\ lastCall[3] = <<"returned", "Card">>
  /\ meta["Card"].exampleOutput = Ref(1)
  /\ heap = AuthorHeap
  /\ mockCalls = 0

\* the example argument is a producer
ProducerExample(definition) == definition.exampleOutput[1] = "fn"

\* what one invocation of producer p yields on heap h
ProducedBy(h, p) == RunProducer(h, p).outcome

\* C22: a defineWidget call whose example argument is a producer invokes that
\* producer exactly once and no other, and when the producer returns, its
\* return value is the resolved example attached to the component; no other
\* step, a later read of the metadata included, invokes a producer.
C22_ProducerInvokedOnce ==
  [][ /\ (BindStep /\ ProducerExample(lastCall'[2])) =>
           /\ producerCalls' =
                [producerCalls EXCEPT ![lastCall'[2].exampleOutput[2]] = @ + 1]
           /\ mockCalls' = mockCalls
           /\ ProducedBy(heap, lastCall'[2].exampleOutput[2])[1] = "return" =>
                /\ lastCall'[3] = <<"returned", lastCall'[2].component>>
                /\ SameValue(meta'[lastCall'[2].component].exampleOutput,
                             ProducedBy(heap, lastCall'[2].exampleOutput[2])[2])
      /\ ~BindStep => producerCalls' = producerCalls ]_vars

C22_Witness ==
  /\ nBinds = 1
  /\ lastCall[2].exampleOutput = Fn("fresh")
  /\ producerCalls["fresh"] = 1
  /\ meta[lastCall[2].component].exampleOutput = Ref(3)
  /\ lastRead = <<"read", lastCall[2].component, meta[lastCall[2].component]>>

\* C23: a defineWidget call whose producer throws fails with the producer's
\* error, does not invoke the mock generator, and leaves the metadata of every
\* component, the one passed in included, exactly as it was before the call.
C23_ProducerThrowLeavesRendererAlone ==
  [][ ( /\ BindStep
        /\ ProducerExample(lastCall'[2])
        /\ ProducedBy(heap, lastCall'[2].exampleOutput[2])[1] = "throw" ) =>
          /\ lastCall'[3] =
               <<"threw", ProducedBy(heap, lastCall'[2].exampleOutput[2])[2]>>
          /\ mockCalls' = mockCalls
          /\ meta' = meta ]_vars

C23_Witness ==
  /\ nBinds = 1
  /\ lastCall[2].exampleOutput = Fn("throws")
  /\ lastCall[3] = <<"threw", "boom">>
  /\ meta[lastCall[2].component] = Unbound
  /\ mockCalls = 0
  /\ producerCalls["throws"] = 1

\* C24: once a component carries metadata, no later step changes the schema
\* or the resolved example attached to it, a later defineWidget call given the
\* same component with another schema or example included.
C24_BoundMetadataNeverChanges ==
  [][ \A c \in Components : meta[c].bound => meta'[c] = meta[c] ]_vars

(***************************************************************************)
(* safePath (filesystem.ts).  A path is the sequence of its characters.    *)
(***************************************************************************)
PathChars == {"/", ".", "a", "b"}

\* const PROJECT_ROOT = process.cwd(): the server was started in /a
PROJECT_ROOT == <<"/", "a">>

\* the user-provided paths
UserPaths == UNION { [1..n -> PathChars] : n \in 0..MaxPathLen }

\* the segments of s between separators; cur is the segment being read
RECURSIVE Split(_, _)
Split(s, cur) ==
  IF s = <<>> THEN <<cur>>
  ELSE IF s[1] = "/" THEN <<cur>> \o Split(Tail(s), <<>>)
  ELSE Split(Tail(s), Append(cur, s[1]))

\* path.resolve's normalisation: empty and "." segments are dropped, ".."
\* removes the directory before it and stays at the filesystem root
RECURSIVE ResolveSegments(_, _)
ResolveSegments(segments, stack) ==
  IF segments = <<>> THEN stack
  ELSE IF segments[1] = <<>> \/ segments[1] = <<".">>
    THEN ResolveSegments(Tail(segments), stack)
  ELSE IF segments[1] = <<".", ".">>
    THEN ResolveSegments(Tail(segments),
                   IF stack = <<>> THEN <<>> ELSE SubSeq(stack, 1, Len(stack) - 1))
  ELSE ResolveSegments(Tail(segments), Append(stack, segments[1]))

\* path.resolve(from, to) for an absolute from: an absolute to replaces it
Resolve(from, to) ==
  LET whole == IF to # <<>> /\ to[1] = "/" THEN to ELSE from \o <<"/">> \o to
      stack == ResolveSegments(Split(whole, <<>>), <<>>)
  IN  <<"/">> \o Join(stack, "/")

\* String.prototype.startsWith
StartsWith(s, prefix) ==
  Len(s) >= Len(prefix) /\ SubSeq(s, 1, Len(prefix)) = prefix

safePath(relativePath) ==
  LET resolved == Resolve(PROJECT_ROOT, relativePath)
  IN  IF ~StartsWith(resolved, PROJECT_ROOT)
        THEN <<"throw", "Access denied: Path outside project root">>
        ELSE <<"return", resolved>>

InitPath ==
  /\ userPath \in UserPaths
  /\ ppc = "ready"
  /\ pathResult = <<"none">>
  /\ LoaderIdle /\ ServerIdle /\ ExtractIdle /\ GenIdle /\ BindIdle

CallSafePath ==
  /\ ppc = "ready"
  /\ pathResult' = safePath(userPath)
  /\ ppc' = "done"
  /\ UNCHANGED <<nonPathVars, userPath>>

NextPath == CallSafePath

SpecPath == InitPath /\ [][NextPath]_vars

(***************************************************************************)
(* safePath claims                                                         *)
(***************************************************************************)
\* the directories from the filesystem root down to path s
Directories(s) == ResolveSegments(Split(s, <<>>), <<>>)

\* s is the project root or lies below it
InsideRoot(s) ==
  LET root == Directories(PROJECT_ROOT)
      dirs == Directories(s)
  IN  Len(dirs) >= Len(root) /\ SubSeq(dirs, 1, Len(root)) = root

\* C25: for every user path, safePath either throws its access-denied error
\* or returns an absolute path that is the project root or lies below it; it
\* never returns a path outside the root, a sibling directory whose name
\* begins with the root's name included.
C25_SafePathStaysInsideRoot ==
  ppc = "done" =>
    \/ pathResult = <<"throw", "Access denied: Path outside project root">>
    \/ /\ pathResult[1] = "return"
       /\ pathResult[2][1] = "/"
       /\ InsideRoot(pathResult[2])

(***************************************************************************)
(* Loader claims: loads per mount, poll timeout, terminal states           *)
(***************************************************************************)
\* the loads of the mount whose promise has not settled
InFlight == {k \in 1..Len(loads) : loads[k].status = "pending"}

\* C26: for each mount of the loader at most one module load is ever started
\* and at most one is in flight, whatever effect runs (the mount, cleanup,
\* re-mount sequence of StrictMode included) and host-signal detections occur.
C26_AtMostOneLoadPerMount ==
  /\ Len(loads) <= 1
  /\ Cardinality(InFlight) <= 1

\* the step is the setTimeout callback of an effect run of the mounted loader
TimeoutStep == pc = "running" /\ pc' = pc /\ timeouts' # timeouts

\* C27: when the poll timeout fires in the gated loader and the loader has not
\* observed the host capability, polling stops, a warning is logged and the
\* loader stays in awaiting-host-signal: no error, no lookup, no load.
C27_TimeoutStopsPollAndWarns ==
  [][ (gated /\ ~hasOpenAI /\ TimeoutStep) =>
        /\ intervals' = {}
        /\ warned'
        /\ LoaderState' = "awaiting-host-signal"
        /\ error' = error /\ loads' = loads /\ lookups' = lookups ]_vars

\* React, the browser and the timers all run their callbacks: the fairness of
\* FairSpecLoader and of the interval and timeout callbacks.
FairTimersSpecLoader ==
  /\ FairSpecLoader
  /\ \A r \in {1, 2} : WF_vars(PollTick(r)) /\ WF_vars(PollTimeout(r))

\* the gated loader is mounted and has not observed the host capability
Awaiting == gated /\ pc = "running" /\ ~hasOpenAI

\* C28 as stated: whenever the host capability is present while the gated
\* loader is mounted, before or after the poll timeout, the loader eventually
\* observes it and leaves awaiting-host-signal (or is unmounted).
C28_Original ==
  (Awaiting /\ windowOpenai) ~> (hasOpenAI \/ pc = "unmounted")

\* the step is a setInterval callback of the mounted loader that finds the
\* capability
TickFinds ==
  /\ pc = "running" /\ pc' = pc
  /\ windowOpenai
  /\ intervals' # intervals
  /\ timeouts' = timeouts

C28_TickObserves ==
  (gated /\ TickFinds) =>
    /\ hasOpenAI'
    /\ LoaderState' # "awaiting-host-signal"
    /\ ~hasOpenAI => loadEffectPending'

C28_StuckOncePollStopped ==
  (Awaiting /\ intervals = {} /\ ~loadEffectPending) => ~hasOpenAI'

\* C28 (amended): while the poll of the mounted gated loader is running, a poll
\* tick that finds the host capability makes the loader observe it, and the
\* loader then leaves awaiting-host-signal; once the poll has stopped (the
\* timeout fired first) the loader never observes a capability that is or
\* becomes present.
C28_ObservedWhilePolling ==
  /\ [][C28_TickObserves]_vars
  /\ [][C28_StuckOncePollStopped]_vars

C28_Witness ==
  /\ gated
  /\ pc = "running"
  /\ windowOpenai
  /\ hasOpenAI
  /\ intervals = {}
  /\ timeouts # {}
  /\ LoaderState = "loaded"

\* the state variable holds a renderer
RendererSet == WidgetComponent[1] = "component"

C29_NotBoth == ~(error # NoError /\ RendererSet)

C29_TerminalStep ==
  (pc = "running" /\ pc' = pc /\ (error # NoError \/ RendererSet)) =>
    /\ error' = error
    /\ WidgetComponent' = WidgetComponent
    /\ LoaderState' = LoaderState
    /\ Render' = Render

\* C29: the error message and the loaded renderer are never both set, and
\* once either is set no later event of the mounted loader (a load
\* completing, a poll tick, the timeout) changes the loader's state or what
\* it renders.
C29_LoadedAndErrorAreTerminal ==
  /\ []C29_NotBoth
  /\ [][C29_TerminalStep]_vars

C29_Witness ==
  /\ strictDev
  /\ ~gated
  /\ pc = "running"
  /\ Len(loads) = 2
  /\ loads[1].status = "fulfilled"
  /\ loads[2].status = "fulfilled"
  /\ LoaderState = "loaded"

(***************************************************************************)
(* Server claim: one outcome per invocation of the shell middleware        *)
(***************************************************************************)
\* C30: for every request and every outcome of the file read and of the HTML
\* transform, an invocation of the dev shell middleware either sends a
\* response or calls next (with or without an error), exactly once: never
\* both, never neither.
C30_SendOrNextExactlyOnce ==
  \A i \in 1..Len(shellRuns) :
    LET did == shellRuns[i].did
    IN /\ Len(did.nexts) <= 1
       /\ (did.response # NoResponse) # (Len(did.nexts) = 1)
       /\ did.response # NoResponse =>
            /\ Len(responses) = 1
            /\ responses[1].by = "shell"

C30_Witness ==
  /\ Len(shellRuns) = 1
  /\ composition = "index"
  /\ shellRuns[1].requestedFile \in HtmlFiles
  /\ shellRuns[1].readOk
  /\ shellRuns[1].did.response # NoResponse
  /\ shellRuns[1].did.nexts = <<>>
  /\ Len(responses) = 1

====
